---- MODULE Spec2Model ----
(***************************************************************************)
(* Behavioural model of src/app.py: the Dropbox capture-and-upload tool.   *)
(*                                                                         *)
(* Python strings are modelled as sequences of one-character strings, so   *)
(* that sanitising, suffix tests, path splitting, "//" collapsing and      *)
(* sorting are computed character by character as the code computes them.  *)
(***************************************************************************)
EXTENDS Integers, Sequences, FiniteSets, TLC

(***************************************************************************)
(* Characters                                                              *)
(***************************************************************************)
\* The printable ASCII characters in code-point order, starting at 32 (the
\* grave accent, code point 96, cannot be written in a TLA+ string and is held
\* by a placeholder no character equals).
Ascii ==
  << " ", "!", "\"", "#", "$", "%", "&", "'", "(", ")", "*", "+", ",", "-", ".", "/",
     "0", "1", "2", "3", "4", "5", "6", "7", "8", "9", ":", ";", "<", "=", ">", "?",
     "@", "A", "B", "C", "D", "E", "F", "G", "H", "I", "J", "K", "L", "M", "N", "O",
     "P", "Q", "R", "S", "T", "U", "V", "W", "X", "Y", "Z", "[", "\\", "]", "^", "_",
     "grave", "a", "b", "c", "d", "e", "f", "g", "h", "i", "j", "k", "l", "m", "n", "o",
     "p", "q", "r", "s", "t", "u", "v", "w", "x", "y", "z", "{", "|", "}", "~" >>

\* Code point of every character of the table.
CodePoint == [c \in {Ascii[i] : i \in 1..Len(Ascii)} |->
                31 + (CHOOSE i \in 1..Len(Ascii) : Ascii[i] = c)]

\* ord(c): the code point of a character.
Ord(c) == CodePoint[c]

IsUpper(c) == Ord(c) >= 65 /\ Ord(c) <= 90
IsLower(c) == Ord(c) >= 97 /\ Ord(c) <= 122
IsDigit(c) == Ord(c) >= 48 /\ Ord(c) <= 57

\* str.lower() on one character.
LowerChar(c) == IF IsUpper(c) THEN Ascii[Ord(c) + 32 - 31] ELSE c

\* str.lower().
Lower(s) == [i \in 1..Len(s) |-> LowerChar(s[i])]

\* str.endswith(suffix).
EndsWith(s, suffix) ==
  /\ Len(s) >= Len(suffix)
  /\ SubSeq(s, Len(s) - Len(suffix) + 1, Len(s)) = suffix

\* str.startswith(prefix).
StartsWith(s, prefix) ==
  /\ Len(s) >= Len(prefix)
  /\ SubSeq(s, 1, Len(prefix)) = prefix

\* s < t in Python's string order (lexicographic by code point).
RECURSIVE StrLess(_, _)
StrLess(s, t) ==
  IF t = << >> THEN FALSE
  ELSE IF s = << >> THEN TRUE
  ELSE IF Head(s) = Head(t) THEN StrLess(Tail(s), Tail(t))
  ELSE Ord(Head(s)) < Ord(Head(t))

StrLeq(s, t) == s = t \/ StrLess(s, t)

\* The builtin sorted() on a list of strings (stable insertion into place).
RECURSIVE Insert(_, _)
Insert(x, sortedSeq) ==
  IF sortedSeq = << >> THEN << x >>
  ELSE IF StrLess(x, Head(sortedSeq)) THEN << x >> \o sortedSeq
  ELSE << Head(sortedSeq) >> \o Insert(x, Tail(sortedSeq))

RECURSIVE sorted(_)
sorted(seq) ==
  IF seq = << >> THEN << >>
  ELSE Insert(seq[Len(seq)], sorted(SubSeq(seq, 1, Len(seq) - 1)))

\* The elements of a list.
Range(seq) == {seq[i] : i \in 1..Len(seq)}

\* str.replace(old, new): non-overlapping occurrences, left to right.
RECURSIVE Replace(_, _, _)
Replace(s, old, new) ==
  IF s = << >> THEN << >>
  ELSE IF StartsWith(s, old) THEN new \o Replace(SubSeq(s, Len(old) + 1, Len(s)), old, new)
  ELSE << Head(s) >> \o Replace(Tail(s), old, new)

\* str(n) for a natural number.
RECURSIVE IntToStr(_)
IntToStr(n) ==
  IF n < 10 THEN << Ascii[n + 48 - 31] >>
  ELSE IntToStr(n \div 10) \o << Ascii[(n % 10) + 48 - 31] >>

(***************************************************************************)
(* sanitize_filename and the path helpers                                  *)
(***************************************************************************)
\* The character class [\w\-_.() ] of the regular expression.
Allowed(c) ==
  \/ IsUpper(c) \/ IsLower(c) \/ IsDigit(c)
  \/ c \in {"_", "-", ".", "(", ")", " "}

\* re.sub(r"[^\w\-_.() ]", "_", name) followed by replace(" ", "_").
sanitize_filename(name) ==
  LET subbed == [i \in 1..Len(name) |-> IF Allowed(name[i]) THEN name[i] ELSE "_"]
  IN  [i \in 1..Len(subbed) |-> IF subbed[i] = " " THEN "_" ELSE subbed[i]]

\* Position of the last occurrence of c in s, 0 when there is none.
LastIndex(s, c) ==
  IF \E i \in 1..Len(s) : s[i] = c
  THEN CHOOSE i \in 1..Len(s) : s[i] = c /\ \A j \in (i + 1)..Len(s) : s[j] # c
  ELSE 0

\* PurePosixPath(p).name for a normalised path.
PathName(p) == SubSeq(p, LastIndex(p, "/") + 1, Len(p))

\* PurePosixPath(p).stem: the name without its last suffix.
PathStem(p) ==
  LET name == PathName(p)
      i == LastIndex(name, ".")
  IN  IF i > 1 /\ i < Len(name) THEN SubSeq(name, 1, i - 1) ELSE name

\* PurePosixPath(p).parent.as_posix() for a normalised path.
PathParent(p) ==
  LET i == LastIndex(p, "/")
  IN  IF i = 0 THEN << "." >>
      ELSE IF i = 1 THEN << "/" >>
      ELSE SubSeq(p, 1, i - 1)

\* The destination root of a spreadsheet location.
root_upload_folder(selected) ==
  LET excel_base == sanitize_filename(PathStem(selected))
      excel_parent_raw == PathParent(selected)
      excel_parent == IF excel_parent_raw \in {<< "." >>, << >>, << "/" >>}
                      THEN << >> ELSE excel_parent_raw
  IN  Replace(<< "/" >> \o excel_parent \o << "/" >> \o excel_base, << "/", "/" >>, << "/" >>)

\* The destination path of one image of the session.
dropbox_path(selected, img) ==
  LET subfolder == sanitize_filename(IntToStr(img.row))
  IN  Replace(root_upload_folder(selected) \o << "/" >> \o subfolder \o << "/" >>
                \o sanitize_filename(img.filename),
              << "/", "/" >>, << "/" >>)

(***************************************************************************)
(* The remote store                                                        *)
(*                                                                         *)
(* A store maps the lower-cased path of each folder to the set of entries  *)
(* files_list_folder returns for it.  An entry is a FolderMetadata or a    *)
(* FileMetadata value with its name, path_display and path_lower.          *)
(***************************************************************************)
FolderEntry(display) ==
  [tag |-> "folder", name |-> PathName(display),
   path_display |-> display, path_lower |-> Lower(display)]

FileEntry(display) ==
  [tag |-> "file", name |-> PathName(display),
   path_display |-> display, path_lower |-> Lower(display)]

\* The folders a store of the model may hold: "", "/A" and "/A/b".
RootKey == << >>
FolderA == << "/", "A" >>
FolderAb == << "/", "A", "/", "b" >>
FolderKeys == {RootKey, Lower(FolderA), Lower(FolderAb)}

\* All orders in which the entries of one folder can be returned.
Perms(S) ==
  {f \in [1..Cardinality(S) -> S] : \A i, j \in 1..Cardinality(S) : f[i] = f[j] => i = j}

\* faultAt value for a traversal in which every listing succeeds.
NoFault == -1

(***************************************************************************)
(* list_dropbox_excels                                                     *)
(***************************************************************************)
\* The test of line 54 on a file entry.
IsExcelEntryLoose(entry) ==
  /\ entry.tag = "file"
  /\ \/ EndsWith(entry.name, << ".", "x", "l", "s" >>)
     \/ EndsWith(entry.name, << ".", "x", "l", "s", "x" >>)

IsExcelEntry(entry) ==
  /\ entry.tag = "file"
  /\ \/ EndsWith(Lower(entry.name), << ".", "x", "l", "s" >>)
     \/ EndsWith(Lower(entry.name), << ".", "x", "l", "s", "x" >>)

\* The for loop over the entries of one folder (lines 51-55).
RECURSIVE ScanEntries(_, _, _)
ScanEntries(entries, queue, results) ==
  IF entries = << >> THEN [queue |-> queue, results |-> results]
  ELSE LET entry == Head(entries)
       IN  IF entry.tag = "folder"
           THEN ScanEntries(Tail(entries), Append(queue, entry.path_lower), results)
           ELSE IF IsExcelEntry(entry)
           THEN ScanEntries(Tail(entries), queue, Append(results, entry.path_display))
           ELSE ScanEntries(Tail(entries), queue, results)

\* The while loop (lines 48-55).  order[f] is the order in which the listing
\* of folder f returns its entries; the listing call number faultAt + 1 raises
\* (none does when faultAt = NoFault).  listed is the sequence of folders whose
\* listing has succeeded so far.
RECURSIVE Traverse(_, _, _, _, _)
Traverse(queue, results, listed, order, faultAt) ==
  IF queue = << >> THEN [results |-> results, listed |-> listed, raised |-> FALSE]
  ELSE LET current == Head(queue)
       IN  IF Len(listed) = faultAt \/ current \notin DOMAIN order
           THEN [results |-> results, listed |-> listed, raised |-> TRUE]
           ELSE LET scan == ScanEntries(order[current], Tail(queue), results)
                IN  Traverse(scan.queue, scan.results, Append(listed, current),
                             order, faultAt)

\* A variant whose except branch gives up what was collected before the fault.
list_dropbox_excels_empty_on_error(root_folder, order, faultAt) ==
  LET t == Traverse(<< root_folder >>, << >>, << >>, order, faultAt)
  IN  [files |-> IF t.raised THEN << >> ELSE sorted(t.results),
       error |-> t.raised, listed |-> t.listed]

\* list_dropbox_excels(root_folder): the sorted list it returns, whether the
\* error was reported, and the folders that were listed.
list_dropbox_excels(root_folder, order, faultAt) ==
  LET t == Traverse(<< root_folder >>, << >>, << >>, order, faultAt)
  IN  [files |-> sorted(t.results), error |-> t.raised, listed |-> t.listed]

(***************************************************************************)
(* The stores of the listing specification                                 *)
(***************************************************************************)
MaxFiles == 4

F_M_xls == << "/", "M", ".", "x", "l", "s" >>
F_AM_xls == << "/", "A", "/", "M", ".", "x", "l", "s" >>
F_AM_xlsx == << "/", "A", "/", "M", ".", "x", "l", "s", "x" >>
F_An_txt == << "/", "A", "/", "n", ".", "t", "x", "t" >>
F_AbZ_XLSX == << "/", "A", "/", "b", "/", "Z", ".", "X", "L", "S", "X" >>
F_Ab_xls == << "/", "A", "/", "b", "/", "x", "l", "s" >>

\* Every file a store may hold, and those of them that are spreadsheets.
AllFiles == {F_M_xls, F_AM_xls, F_AM_xlsx, F_An_txt, F_AbZ_XLSX, F_Ab_xls}
SheetFiles == {F_M_xls, F_AM_xls, F_AM_xlsx, F_AbZ_XLSX}

\* The folder a display path lies in (the root for a top-level path).
ParentFolder(d) == IF PathParent(d) = << "/" >> THEN RootKey ELSE PathParent(d)

\* The store holding the folders and the files given (by display path).
StoreOf(folders, files) ==
  [k \in FolderKeys |->
     {FolderEntry(d) : d \in {d \in folders : Lower(ParentFolder(d)) = k}}
     \cup {FileEntry(d) : d \in {d \in files : Lower(ParentFolder(d)) = k}}]

\* Every store of at most MaxFiles files, each file in a folder of the store.
ListStores ==
  {StoreOf(fo, fi) :
     fo \in {{}, {FolderA}, {FolderA, FolderAb}},
     fi \in {fi \in SUBSET AllFiles : Cardinality(fi) <= MaxFiles}}

\* The files of a store, wherever they lie.
FilesOf(t) == {e \in UNION {t[k] : k \in DOMAIN t} : e.tag = "file"}

\* The folders of a store reachable from the root, as lower-cased paths.
FoldersOf(t) ==
  {RootKey} \cup {e.path_lower : e \in {e \in UNION {t[k] : k \in DOMAIN t} : e.tag = "folder"}}

(***************************************************************************)
(* read_excel_from_dropbox and the catalog                                 *)
(*                                                                         *)
(* A decoded workbook is the sequence of its sheets in file order.  A      *)
(* sheet (a DataFrame) has a sequence of column names and a sequence of    *)
(* rows; a row holds one cell per column of the sheet.  A cell is modelled *)
(* by the text str() gives for it: an empty cell is NaN and prints "nan".  *)
(***************************************************************************)
S_Model == << "M", "o", "d", "e", "l" >>
S_Color == << "C", "o", "l", "o", "r" >>
S_Name == << "N", "a", "m", "e" >>
S_Red == << "R", "e", "d" >>
S_Blue == << "B", "l", "u", "e" >>
S_nan == << "n", "a", "n" >>

\* The value None.
None == << "None" >>

\* read_excel_from_dropbox(path): the decoded workbook, or the empty mapping
\* when the download or the decoding raised.
read_excel_from_dropbox(content, path, ok) ==
  IF ok /\ path \in DOMAIN content THEN content[path] ELSE << >>

\* str.join.
RECURSIVE Join(_, _)
Join(sep, parts) ==
  IF parts = << >> THEN << >>
  ELSE IF Len(parts) = 1 THEN parts[1]
  ELSE parts[1] \o sep \o Join(sep, Tail(parts))

\* Sequence of the indices i of 1..n that satisfy keep[i], ascending.
RECURSIVE Kept(_, _)
Kept(n, keep) ==
  IF n = 0 THEN << >>
  ELSE IF keep[n] THEN Append(Kept(n - 1, keep), n) ELSE Kept(n - 1, keep)

\* row["Model"] as text (line 109).
RowModel(columns, row) ==
  row[CHOOSE c \in 1..Len(columns) : columns[c] = S_Model]

\* The display label of one row (lines 110-111).
RowDisplay(columns, row) ==
  LET others == Kept(Len(columns), [c \in 1..Len(columns) |-> columns[c] # S_Model])
      info == Join(<< " ", "|", " " >>,
                   [x \in 1..Len(others) |->
                      columns[others[x]] \o << ":", " " >> \o row[others[x]]])
  IN  IF info # << >>
      THEN RowModel(columns, row) \o << " ", "(" >> \o info \o << ")" >>
      ELSE RowModel(columns, row)

\* A variant recording the 1-based position of the row without the header.
RowNumberNoHeader(i) == i + 1

\* The Excel row number of the row with index label i (line 115).
RowNumber(i) == i + 2

\* The loop over the rows of one sheet (lines 108-116).  i is the 0-based
\* index label of the next row.
RECURSIVE CatalogRows(_, _, _, _)
CatalogRows(columns, rows, i, cat) ==
  IF i >= Len(rows) THEN cat
  ELSE LET row == rows[i + 1]
           display == RowDisplay(columns, row)
           entry == [model |-> RowModel(columns, row), row |-> RowNumber(i)]
       IN  CatalogRows(columns, rows, i + 1,
             [model_options |-> Append(cat.model_options, display),
              model_map |-> [d \in DOMAIN cat.model_map \cup {display} |->
                               IF d = display THEN entry ELSE cat.model_map[d]]])

\* The loop over the sheets (lines 103-116).
RECURSIVE Catalog(_, _)
Catalog(workbook, cat) ==
  IF workbook = << >> THEN cat
  ELSE LET df == Head(workbook)
       IN  IF \E c \in 1..Len(df.columns) : df.columns[c] = S_Model
           THEN Catalog(Tail(workbook), CatalogRows(df.columns, df.rows, 0, cat))
           ELSE Catalog(Tail(workbook), cat)

EmptyCatalog == [model_options |-> << >>, model_map |-> << >>]

\* st.selectbox(options): nothing when there is no option; the wanted option
\* when the widget shows the options it showed in the previous run and wanted
\* is one of them; the first option otherwise.
selectbox(options, previous_options, wanted) ==
  IF options = << >> THEN None
  ELSE IF options = previous_options /\ \E i \in 1..Len(options) : options[i] = wanted
  THEN wanted
  ELSE options[1]

VARIABLES
  tree,             \* the remote store
  excel_files,      \* the list list_dropbox_excels returned
  list_error,       \* whether the listing reported a transport error
  listed,           \* the folders listed before the listing returned
  lpc,              \* "start" before the listing, "listed" after it
  sheets,           \* the decoded workbook
  model_options,    \* the labels of the catalog, in row order
  model_map,        \* label -> [model, row]
  cpc,              \* "editing" while the workbook is written, "built" after
  selected_excel,   \* value of the spreadsheet selectbox
  selected_display, \* value of the model selectbox
  images_by_model,  \* st.session_state.images_by_model, in key insertion order
  capture_key,      \* st.session_state.capture_key
  pc,               \* how the last script run ended
  attempts,         \* the upload calls of the last script run, in order
  batch,            \* the images pending when the last script run started to upload
  captured_from,    \* data of a pending image -> spreadsheet selected at its capture
  last_op,          \* the handler the last script run reached
  last_arg          \* the label and 0-based index the last script run deleted

lvars == << tree, excel_files, list_error, listed, lpc >>
cvars == << sheets, model_options, model_map, cpc >>
svars == << selected_excel, selected_display, images_by_model, capture_key, pc,
            attempts, batch, captured_from, last_op, last_arg >>
vars == << lvars, cvars, svars >>

\* The values of the variables a specification does not use.
ListIdle ==
  /\ tree = [k \in FolderKeys |-> {}]
  /\ excel_files = << >>
  /\ list_error = FALSE
  /\ listed = << >>
  /\ lpc = "start"

CatalogIdle ==
  /\ sheets = << >>
  /\ model_options = << >>
  /\ model_map = << >>
  /\ cpc = "editing"

SessionInit ==
  /\ selected_excel = None
  /\ selected_display = None
  /\ images_by_model = << >>
  /\ capture_key = 0
  /\ pc = "init"
  /\ attempts = << >>
  /\ batch = << >>
  /\ captured_from = << >>
  /\ last_op = "none"
  /\ last_arg = << >>

(***************************************************************************)
(* Specification of the listing: any store, any order of the entries of a  *)
(* folder, a transport error at any listing call or at none.               *)
(***************************************************************************)
ListInit ==
  /\ tree \in {t \in ListStores :
                 \A e \in FilesOf(t) : Lower(ParentFolder(e.path_display)) \in FoldersOf(t)}
  /\ excel_files = << >>
  /\ list_error = FALSE
  /\ listed = << >>
  /\ lpc = "start"
  /\ CatalogIdle
  /\ SessionInit

\* The orders in which the listings of the folders of a store can return.
Orders(t) ==
  {[k \in FolderKeys |->
      IF k = RootKey THEN o[1] ELSE IF k = Lower(FolderA) THEN o[2] ELSE o[3]] :
     o \in Perms(t[RootKey]) \X Perms(t[Lower(FolderA)]) \X Perms(t[Lower(FolderAb)])}

\* The listing calls at which a transport error can strike.
FaultPoints == {NoFault} \cup 0..(Cardinality(FolderKeys) - 1)

\* excel_files = list_dropbox_excels(DROPBOX_ROOT) (line 98).
ListExcels ==
  /\ lpc = "start"
  /\ \E order \in Orders(tree), faultAt \in FaultPoints :
       LET r == list_dropbox_excels(RootKey, order, faultAt)
       IN  /\ excel_files' = r.files
           /\ list_error' = r.error
           /\ listed' = r.listed
  /\ lpc' = "listed"
  /\ UNCHANGED << tree, cvars, svars >>

ListNext == ListExcels
SpecList == ListInit /\ [][ListNext]_vars

(***************************************************************************)
(* Specification of the catalog: a workbook is written sheet by sheet and  *)
(* row by row, then decoded and turned into the catalog.                   *)
(***************************************************************************)
MaxSheets == 2
MaxRows == 3

ColumnChoices == {<< S_Model >>, << S_Model, S_Color >>, << S_Color, S_Model >>, << S_Name >>}
CellChoices(column) ==
  IF column = S_Color THEN {S_Red, S_nan} ELSE {<< "A" >>, << "B" >>}

\* The rows a sheet with the columns given can hold.
RowChoices(columns) ==
  IF Len(columns) = 1 THEN {<< v >> : v \in CellChoices(columns[1])}
  ELSE {<< v, w >> : v \in CellChoices(columns[1]), w \in CellChoices(columns[2])}

TotalRows(workbook) ==
  LET RECURSIVE Sum(_)
      Sum(w) == IF w = << >> THEN 0 ELSE Len(Head(w).rows) + Sum(Tail(w))
  IN  Sum(workbook)

CatalogInit ==
  /\ ListIdle
  /\ CatalogIdle
  /\ SessionInit

\* The author of the spreadsheet adds a sheet.
EditAddSheet ==
  /\ cpc = "editing"
  /\ Len(sheets) < MaxSheets
  /\ \E columns \in ColumnChoices :
       sheets' = Append(sheets, [columns |-> columns, rows |-> << >>])
  /\ UNCHANGED << model_options, model_map, cpc, lvars, svars >>

\* The author of the spreadsheet adds a row to the last sheet.
EditAddRow ==
  /\ cpc = "editing"
  /\ sheets # << >>
  /\ TotalRows(sheets) < MaxRows
  /\ \E row \in RowChoices(sheets[Len(sheets)].columns) :
       sheets' = [sheets EXCEPT ![Len(sheets)].rows = Append(@, row)]
  /\ UNCHANGED << model_options, model_map, cpc, lvars, svars >>

\* The catalog of the decoded workbook (lines 103-116).
BuildCatalog ==
  /\ cpc = "editing"
  /\ LET cat == Catalog(sheets, EmptyCatalog)
     IN  /\ model_options' = cat.model_options
         /\ model_map' = cat.model_map
  /\ cpc' = "built"
  /\ UNCHANGED << sheets, lvars, svars >>

CatalogNext == EditAddSheet \/ EditAddRow \/ BuildCatalog
SpecCatalog == CatalogInit /\ [][CatalogNext]_vars

(***************************************************************************)
(* The interactive script (lines 98-183)                                   *)
(*                                                                         *)
(* Every interaction runs the script from the top: the listing, the        *)
(* download and the catalog are computed again, with their own remote      *)
(* outcomes, before the handler of the interaction is reached.             *)
(* st.session_state (images_by_model, capture_key) and the values of the   *)
(* widgets last from run to run.                                           *)
(***************************************************************************)
MaxCaptures == 3

P_M == << "/", "A", "/", "M", ".", "x", "l", "s", "x" >>
P_N == << "/", "A", "/", "N", ".", "x", "l", "s", "x" >>
P_C == << "/", "C", ".", "x", "l", "s" >>

\* The store of the session: /A/M.xlsx, /A/N.xlsx and /C.xls.
SessionStore == StoreOf({FolderA}, {P_M, P_N, P_C})

\* What the spreadsheets of the store decode to.  M has two sheets whose only
\* row has the same model; N has no "Model" column; C has one column and a
\* model name with a space.
SessionContent ==
  (P_M :> << [columns |-> << S_Model, S_Color >>, rows |-> << << << "X" >>, S_Red >> >>],
             [columns |-> << S_Model, S_Color >>, rows |-> << << << "X" >>, S_Blue >> >>] >>)
  @@ (P_N :> << [columns |-> << S_Name >>, rows |-> << << << "Z" >> >> >>] >>)
  @@ (P_C :> << [columns |-> << S_Model >>, rows |-> << << << "X", " ", "Y" >> >> >>] >>)

\* The outcomes of dbx.files_upload and of opening the local file.
UploadOutcomes == {"ok", "ApiError", "FileNotFoundError", "Exception"}

\* A variant that lets the exception of a failed upload escape.
upload_file_to_dropbox_raising(local_data, dropbox_dest, outcome) ==
  [raised |-> outcome # "ok",
   report |-> IF outcome = "ok" THEN "success" ELSE "none",
   call |-> [dest |-> dropbox_dest, data |-> local_data, ok |-> outcome = "ok"]]

\* upload_file_to_dropbox (lines 74-86): every exception is caught and reported.
upload_file_to_dropbox(local_data, dropbox_dest, outcome) ==
  [raised |-> FALSE,
   report |-> IF outcome = "ok" THEN "success" ELSE "error",
   call |-> [dest |-> dropbox_dest, data |-> local_data, ok |-> outcome = "ok"]]

\* dict operations on images_by_model.
HasKey(session, key) == \E x \in 1..Len(session) : session[x].key = key
KeyIndex(session, key) == CHOOSE x \in 1..Len(session) : session[x].key = key
Get(session, key) == IF HasKey(session, key) THEN session[KeyIndex(session, key)].images ELSE << >>
AnyImages(session) == \E x \in 1..Len(session) : session[x].images # << >>

\* list.pop(i) for a 0-based index i.
Pop(list, i) == SubSeq(list, 1, i) \o SubSeq(list, i + 2, Len(list))

\* A variant of the deletion that removes the last image of the label.
DeleteImagePopLast(session, key, i) ==
  [session EXCEPT ![KeyIndex(session, key)].images = Pop(@, Len(@) - 1)]

\* The deletion of line 150.
DeleteImage(session, key, i) ==
  [session EXCEPT ![KeyIndex(session, key)].images = Pop(@, i)]

\* The capture of lines 127-135.
CaptureImage(session, display, selected, data) ==
  LET filename == sanitize_filename(
                    selected.model \o << "_" >> \o IntToStr(Len(Get(session, display)) + 1)
                      \o << ".", "j", "p", "g" >>)
      withKey == IF HasKey(session, display) THEN session
                 ELSE Append(session, [key |-> display, images |-> << >>])
      img == [filename |-> filename, data |-> data,
              row |-> selected.row, model |-> selected.model]
  IN  [withKey EXCEPT ![KeyIndex(withKey, display)].images = Append(@, img)]

\* The images of the session in the order of the loops of lines 167-168.
RECURSIVE Flatten(_)
Flatten(session) ==
  IF session = << >> THEN << >> ELSE Head(session).images \o Flatten(Tail(session))

\* The arguments of the upload calls of lines 167-177, in loop order.
UploadCalls(excel, session) ==
  [n \in 1..Len(Flatten(session)) |->
     [data |-> Flatten(session)[n].data, dest |-> dropbox_path(excel, Flatten(session)[n])]]

\* The loops of lines 167-177 from call number n on: outcomes[n] is the outcome
\* of upload call number n.  The loops end early when a call raises.
RECURSIVE UploadLoop(_, _, _, _)
UploadLoop(calls, outcomes, n, done) ==
  IF n > Len(calls) THEN [calls |-> done, raised |-> FALSE]
  ELSE LET r == upload_file_to_dropbox(calls[n].data, calls[n].dest, outcomes[n])
       IN  IF r.raised THEN [calls |-> Append(done, r.call), raised |-> TRUE]
           ELSE UploadLoop(calls, outcomes, n + 1, Append(done, r.call))

\* Every way the loops can go, over the outcomes of the calls.
UploadRuns(excel, session) ==
  {UploadLoop(calls, outcomes, 1, << >>) :
     calls \in {UploadCalls(excel, session)},
     outcomes \in [1..Len(Flatten(session)) -> UploadOutcomes]}

\* The top of the script after the listing r (lines 99-121) in one run.
RunTop(r, dlOk, wantExcel, wantDisplay) ==
  LET se == selectbox(r.files, excel_files, wantExcel)
      wb == IF se = None THEN << >> ELSE read_excel_from_dropbox(SessionContent, se, dlOk)
      cat == Catalog(wb, EmptyCatalog)
      sd == IF se = None THEN None
            ELSE selectbox(sorted(cat.model_options), sorted(model_options), wantDisplay)
  IN  [files |-> r.files, error |-> r.error, listed |-> r.listed,
       selected_excel |-> se, sheets |-> wb,
       model_options |-> cat.model_options, model_map |-> cat.model_map,
       selected_display |-> sd,
       stage |-> IF se = None THEN "no_excel"
                 ELSE IF sd \notin DOMAIN cat.model_map THEN "KeyError"
                 ELSE "widgets"]

\* The outcomes of the listing of line 98 over every order of the entries and
\* every fault point.
Listings ==
  {list_dropbox_excels(RootKey, order, faultAt) :
     order \in Orders(tree), faultAt \in FaultPoints}

\* The outcomes of the top of the script over every outcome of the listing and
\* both outcomes of the download.
RunTops(wantExcel, wantDisplay) ==
  {RunTop(r, dlOk, wantExcel, wantDisplay) : r \in Listings, dlOk \in BOOLEAN}

\* The variables the top of the script assigns.
SetTop(t) ==
  /\ excel_files' = t.files
  /\ list_error' = t.error
  /\ listed' = t.listed
  /\ selected_excel' = t.selected_excel
  /\ sheets' = t.sheets
  /\ model_options' = t.model_options
  /\ model_map' = t.model_map
  /\ selected_display' = t.selected_display
  /\ UNCHANGED << tree, lpc, cpc >>

\* What a run that reaches no handler leaves of the records of the last run.
NoHandler ==
  /\ attempts' = << >>
  /\ batch' = << >>
  /\ last_op' = "none"
  /\ last_arg' = << >>

\* The data of the images of the session.
DataOf(session) == {Flatten(session)[n].data : n \in 1..Len(Flatten(session))}

\* A function restricted to the keys given.
Restrict(f, keys) == [k \in DOMAIN f \cap keys |-> f[k]]

\* How a run that reaches no handler ends.
Ended(t) == IF t.stage = "widgets" THEN "ready" ELSE t.stage

Init ==
  /\ tree = SessionStore
  /\ excel_files = << >>
  /\ list_error = FALSE
  /\ listed = << >>
  /\ lpc = "start"
  /\ CatalogIdle
  /\ SessionInit

\* A run with no interaction to serve: the first run of the session, the run
\* st.experimental_rerun() starts, or a rerun the user asks for.
Rerun ==
  /\ \E t \in RunTops(selected_excel, selected_display) :
       /\ SetTop(t)
       /\ pc' = Ended(t)
  /\ NoHandler
  /\ captured_from' = Restrict(captured_from, DataOf(images_by_model))
  /\ UNCHANGED << images_by_model, capture_key >>

\* The user picks another spreadsheet.
SelectExcel ==
  /\ pc \in {"no_excel", "KeyError", "ready"}
  /\ \E e \in Range(excel_files) \ {selected_excel} :
       \E t \in RunTops(e, selected_display) :
         /\ SetTop(t)
         /\ pc' = Ended(t)
  /\ NoHandler
  /\ captured_from' = Restrict(captured_from, DataOf(images_by_model))
  /\ UNCHANGED << images_by_model, capture_key >>

\* The user picks another product model.
SelectModel ==
  /\ pc = "ready"
  /\ \E d \in Range(model_options) \ {selected_display} :
       \E t \in RunTops(selected_excel, d) :
         /\ SetTop(t)
         /\ pc' = Ended(t)
  /\ NoHandler
  /\ captured_from' = Restrict(captured_from, DataOf(images_by_model))
  /\ UNCHANGED << images_by_model, capture_key >>

\* The user takes a picture (lines 124-137).
Capture ==
  /\ pc = "ready"
  /\ capture_key < MaxCaptures
  /\ \E t \in RunTops(selected_excel, selected_display) :
       /\ SetTop(t)
       /\ IF t.stage = "widgets"
          THEN /\ images_by_model' =
                    CaptureImage(images_by_model, t.selected_display,
                                 t.model_map[t.selected_display], capture_key)
               /\ capture_key' = capture_key + 1
               /\ captured_from' = (capture_key :> t.selected_excel)
                                      @@ Restrict(captured_from, DataOf(images_by_model))
               /\ pc' = "rerun"
               /\ last_op' = "capture"
          ELSE /\ captured_from' = Restrict(captured_from, DataOf(images_by_model))
               /\ UNCHANGED << images_by_model, capture_key >>
               /\ pc' = Ended(t)
               /\ last_op' = "none"
  /\ attempts' = << >>
  /\ batch' = << >>
  /\ last_arg' = << >>

\* The user presses the delete button of image i of a label (lines 141-151).
Delete ==
  /\ pc = "ready"
  /\ \E x \in 1..Len(images_by_model), t \in RunTops(selected_excel, selected_display) :
       \E i \in 0..(Len(images_by_model[x].images) - 1) :
         LET key == images_by_model[x].key
         IN  /\ SetTop(t)
             /\ IF t.stage = "widgets"
                THEN /\ images_by_model' = DeleteImage(images_by_model, key, i)
                     /\ captured_from' =
                          Restrict(captured_from, DataOf(DeleteImage(images_by_model, key, i)))
                     /\ pc' = "rerun"
                     /\ last_op' = "delete"
                     /\ last_arg' = << key, i >>
                ELSE /\ captured_from' = Restrict(captured_from, DataOf(images_by_model))
                     /\ UNCHANGED images_by_model
                     /\ pc' = Ended(t)
                     /\ last_op' = "none"
                     /\ last_arg' = << >>
  /\ attempts' = << >>
  /\ batch' = << >>
  /\ UNCHANGED capture_key

\* The user presses "Upload all" (lines 154-183).
UploadAll ==
  /\ pc = "ready"
  /\ AnyImages(images_by_model)
  /\ \E t \in RunTops(selected_excel, selected_display) :
       /\ SetTop(t)
       /\ pc' = Ended(t)
       /\ IF t.stage = "widgets"
          THEN \E u \in UploadRuns(t.selected_excel, images_by_model) :
                 /\ attempts' = u.calls
                 /\ batch' = Flatten(images_by_model)
                 /\ images_by_model' = IF u.raised THEN images_by_model ELSE << >>
                 /\ last_op' = "upload"
          ELSE /\ attempts' = << >>
               /\ batch' = << >>
               /\ UNCHANGED images_by_model
               /\ last_op' = "none"
  /\ last_arg' = << >>
  /\ UNCHANGED << capture_key, captured_from >>

Next == Rerun \/ SelectExcel \/ SelectModel \/ Capture \/ Delete \/ UploadAll
Spec == Init /\ [][Next]_vars

(***************************************************************************)
(* Properties of the listing                                               *)
(***************************************************************************)
NoDuplicates(seq) == \A i, j \in 1..Len(seq) : seq[i] = seq[j] => i = j
Ascending(seq) == \A i, j \in 1..Len(seq) : i < j => StrLeq(seq[i], seq[j])

\* The display paths of the spreadsheets lying in the folders given.
SheetsIn(t, folders) ==
  {e.path_display : e \in {e \in FilesOf(t) :
      /\ e.path_display \in SheetFiles
      /\ Lower(ParentFolder(e.path_display)) \in folders}}

\* C2 (as stated): after a transport error at any point of the traversal the
\* returned list is empty.
C2_EmptyOnError == (lpc = "listed" /\ list_error) => excel_files = << >>

\* C2 (amended): after a transport error the returned list holds, sorted and
\* without repetition, exactly the spreadsheets of the folders listed before
\* the fault; it is empty when the fault is on the first folder.
C2_PartialOnError ==
  (lpc = "listed" /\ list_error) =>
    /\ Range(excel_files) = SheetsIn(tree, Range(listed))
    /\ NoDuplicates(excel_files)
    /\ Ascending(excel_files)
    /\ (listed = << >> => excel_files = << >>)

\* A fault on a later folder, after spreadsheets were collected.
C2_Witness ==
  /\ lpc = "listed" /\ list_error
  /\ Len(listed) >= 1
  /\ Len(excel_files) >= 2

\* C5: when every folder listing succeeds, whatever the order of the entries
\* within a folder, the listing returns every spreadsheet of the store (name
\* ending in .xls or .xlsx, in any letter case) exactly once, nothing else, in
\* ascending order.
C5_ListsEverySpreadsheetOnce ==
  (lpc = "listed" /\ ~list_error) =>
    /\ Range(excel_files) = SheetsIn(tree, FoldersOf(tree))
    /\ NoDuplicates(excel_files)
    /\ Ascending(excel_files)

\* A nested store with an upper-case extension and a non-spreadsheet, listed
\* in full.
C5_Witness ==
  /\ lpc = "listed" /\ ~list_error
  /\ Len(listed) = Cardinality(FolderKeys)
  /\ F_AbZ_XLSX \in Range(excel_files)
  /\ F_An_txt \in {e.path_display : e \in FilesOf(tree)}
  /\ Len(excel_files) >= 3

\* C6: any two distinct spreadsheet locations the listing returns have
\* different upload roots, and neither root lies under the other.
C6_DisjointRoots ==
  lpc = "listed" =>
    \A i, j \in 1..Len(excel_files) :
      i # j =>
        LET ri == root_upload_folder(excel_files[i])
            rj == root_upload_folder(excel_files[j])
        IN  /\ ri # rj
            /\ ~StartsWith(ri, rj \o << "/" >>)

(***************************************************************************)
(* Properties of the catalog                                               *)
(***************************************************************************)
\* The rows of the sheets that have a "Model" column, in sheet and row order:
\* the columns of the sheet, the cells of the row and its 0-based position.
RECURSIVE ModelRows(_)
ModelRows(workbook) ==
  IF workbook = << >> THEN << >>
  ELSE LET df == Head(workbook)
       IN  (IF S_Model \in Range(df.columns)
            THEN [p \in 1..Len(df.rows) |->
                    [columns |-> df.columns, cells |-> df.rows[p], pos |-> p - 1]]
            ELSE << >>) \o ModelRows(Tail(workbook))

CellOf(r, column) == r.cells[CHOOSE c \in 1..Len(r.columns) : r.columns[c] = column]

\* "column: value" of every column but "Model" that passes the filter, in
\* column order, separated by " | ".
RECURSIVE InfoList(_, _, _)
InfoList(r, c, shown) ==
  IF c > Len(r.columns) THEN << >>
  ELSE IF r.columns[c] = S_Model \/ ~shown[c] THEN InfoList(r, c + 1, shown)
  ELSE LET rest == InfoList(r, c + 1, shown)
           item == r.columns[c] \o << ":", " " >> \o r.cells[c]
       IN  IF rest = << >> THEN item ELSE item \o << " ", "|", " " >> \o rest

\* The label with every other column of the sheet listed.
LabelAllColumns(r) ==
  LET info == InfoList(r, 1, [c \in 1..Len(r.columns) |-> TRUE])
  IN  IF Len(r.columns) = 1 THEN CellOf(r, S_Model)
      ELSE CellOf(r, S_Model) \o << " ", "(" >> \o info \o << ")" >>

\* The label as the claim words it: the model alone for a row with no value in
\* any other column.
LabelByValues(r) ==
  IF \A c \in 1..Len(r.columns) : r.columns[c] = S_Model \/ r.cells[c] = S_nan
  THEN CellOf(r, S_Model)
  ELSE LabelAllColumns(r)

\* C7 (as stated): every row at position p of a sheet with a "Model" column
\* is recorded under its label with rowNumber p + 2 and its model, the label
\* being the model alone for a row with no other column values.
C7_EveryRowRecorded ==
  cpc = "built" =>
    \A n \in 1..Len(ModelRows(sheets)) :
      LET r == ModelRows(sheets)[n]
      IN  /\ LabelByValues(r) \in DOMAIN model_map
          /\ model_map[LabelByValues(r)] = [model |-> CellOf(r, S_Model), row |-> r.pos + 2]

\* C7 (amended): the label lists every other column of the sheet (an empty
\* cell prints "nan") and is the model alone only in a sheet with no other
\* column; the catalog holds exactly these labels, and a row at position p is
\* recorded with rowNumber p + 2 and its model unless a later row, of the same
\* sheet or of a later one, has the same label.
C7_LastRowRecorded ==
  cpc = "built" =>
    LET mr == ModelRows(sheets)
    IN  /\ model_options = [n \in 1..Len(mr) |-> LabelAllColumns(mr[n])]
        /\ DOMAIN model_map = Range(model_options)
        /\ \A n \in 1..Len(mr) :
             (\A m \in (n + 1)..Len(mr) : LabelAllColumns(mr[m]) # LabelAllColumns(mr[n]))
               => model_map[LabelAllColumns(mr[n])]
                    = [model |-> CellOf(mr[n], S_Model), row |-> mr[n].pos + 2]

\* The example of the specification: of two sheets, one has a "Model" column
\* and the rows ("A", Color "Red") and ("B", no Color).
C7_Witness ==
  /\ cpc = "built"
  /\ Len(sheets) = 2
  /\ sheets[1] = [columns |-> << S_Name >>, rows |-> << << << "A" >> >> >>]
  /\ sheets[2] = [columns |-> << S_Model, S_Color >>,
                  rows |-> << << << "A" >>, S_Red >>, << << "B" >>, S_nan >> >>]
  /\ model_map[<< "A", " ", "(", "C", "o", "l", "o", "r", ":", " ", "R", "e", "d", ")" >>]
       = [model |-> << "A" >>, row |-> 2]
  /\ model_map[<< "B", " ", "(", "C", "o", "l", "o", "r", ":", " ", "n", "a", "n", ")" >>]
       = [model |-> << "B" >>, row |-> 3]

(***************************************************************************)
(* Properties of the session                                               *)
(***************************************************************************)
\* The labels of the session, in insertion order.
Keys(session) == [x \in 1..Len(session) |-> session[x].key]

\* C1 (as stated): after upload-all the session holds exactly the images
\* whose upload failed.
C1_FailedImagesStayPending ==
  last_op = "upload" =>
    DataOf(images_by_model) = {attempts[n].data : n \in {n \in 1..Len(attempts) : ~attempts[n].ok}}

\* C3 (as stated): no run of the script ends in an unhandled error: the
\* catalog is never looked up with a label it does not hold.
C3_NoUnhandledError == pc # "KeyError"

C8_CaptureAppends ==
  last_op' = "capture" =>
    LET label == selected_display'
        old == Get(images_by_model, label)
        new == Get(images_by_model', label)
    IN  /\ Len(new) = Len(old) + 1
        /\ SubSeq(new, 1, Len(old)) = old
        /\ new[Len(new)].filename =
             sanitize_filename(model_map'[label].model \o << "_" >> \o IntToStr(Len(old) + 1)
                                 \o << ".", "j", "p", "g" >>)
        /\ \A k \in Range(Keys(images_by_model)) \cup Range(Keys(images_by_model')) :
             k # label => Get(images_by_model', k) = Get(images_by_model, k)

\* C8, delete: the image at the index is removed; every other image of every
\* label keeps its filename, data, row and relative order.
C8_DeleteRemovesOne ==
  last_op' = "delete" =>
    LET label == last_arg'[1]
        i == last_arg'[2]
        old == Get(images_by_model, label)
        new == Get(images_by_model', label)
    IN  /\ Len(new) = Len(old) - 1
        /\ \A j \in 1..Len(new) : new[j] = IF j <= i THEN old[j] ELSE old[j + 1]
        /\ Keys(images_by_model') = Keys(images_by_model)
        /\ \A k \in Range(Keys(images_by_model)) :
             k # label => Get(images_by_model', k) = Get(images_by_model, k)

\* C8: every capture step appends one image named from the count of its label
\* and every delete step removes the image at the index only, with no
\* renumbering of the images left.
C8_CaptureAndDelete == [][C8_CaptureAppends /\ C8_DeleteRemovesOne]_vars

\* Three captures on one label, then the first image deleted: the two left
\* are still named _2 and _3.
C8_Witness ==
  /\ last_op = "delete"
  /\ last_arg = << selected_display, 0 >>
  /\ capture_key = 3
  /\ Len(images_by_model) = 1
  /\ [n \in 1..Len(Flatten(images_by_model)) |-> Flatten(images_by_model)[n].filename]
       = << << "X", "_", "2", ".", "j", "p", "g" >>, << "X", "_", "3", ".", "j", "p", "g" >> >>

\* C9 (as stated): the pending images map to pairwise distinct destination
\* paths.
C9_DistinctDestinations ==
  selected_excel # None =>
    \A n, m \in 1..Len(Flatten(images_by_model)) :
      n # m => dropbox_path(selected_excel, Flatten(images_by_model)[n])
                 # dropbox_path(selected_excel, Flatten(images_by_model)[m])

\* C10 (as stated): every image is uploaded under the upload root of the
\* spreadsheet that was selected when it was captured.
C10_UploadedUnderCaptureRoot ==
  last_op = "upload" =>
    \A n \in 1..Len(attempts) :
      StartsWith(attempts[n].dest,
                 root_upload_folder(captured_from[attempts[n].data]) \o << "/" >>)
====
